---------------------------- MODULE Spec2Model ----------------------------
(***************************************************************************)
(* Article-analysis pipeline of src/agents.py and src/main.py.             *)
(*                                                                         *)
(* Texts (articles, topics, prompts, provider replies) are sequences of    *)
(* one-character strings.  The fixed passages of the two prompt templates  *)
(* are single elements of more than one character: no scanner of this      *)
(* module looks inside them, and none of them holds a brace, a backtick or *)
(* a JSON token in the source.  The backtick itself is the one element     *)
(* BACKTICK.                                                               *)
(***************************************************************************)
EXTENDS Integers, Sequences, FiniteSets, TLC

(***************************************************************************)
(* Bounds of the model.                                                    *)
(***************************************************************************)
\* Number of concurrent invocations of analyze_text in SpecConcurrent.
NumRuns == 2
\* Most whitespace characters put before and after an article's body.
MaxPad == 1

(***************************************************************************)
(* Characters and text helpers.                                            *)
(***************************************************************************)
LF == "\n"
CR == "\r"
TAB == "\t"
BS == "\\"
QUOTE == "\""
\* The backtick, which a string of this language cannot hold.
BACKTICK == "<backtick>"

At(s, i) == IF i \in 1..Len(s) THEN s[i] ELSE ""

Rep(c, n) == [i \in 1..n |-> c]

\* s[i..j-1], the Python slice s[i:j] in 1-based positions.
Slice(s, i, j) == SubSeq(s, i, j - 1)

\* Whether the characters of lit stand in s from position i on.
MatchAt(s, i, lit) ==
    /\ i >= 1
    /\ i + Len(lit) - 1 <= Len(s)
    /\ \A k \in 1..Len(lit) : s[i + k - 1] = lit[k]

(***************************************************************************)
(* json.loads (agents.py:24 and agents.py:30), strict mode: the scanner of *)
(* the standard decoder.  Each Scan operator returns the position after    *)
(* the construct that starts at i, or 0 where the decoder raises           *)
(* JSONDecodeError.                                                        *)
(***************************************************************************)
JsonWhitespace == {" ", TAB, LF, CR}
Digits == {"0", "1", "2", "3", "4", "5", "6", "7", "8", "9"}
HexDigits == Digits \cup {"a", "b", "c", "d", "e", "f", "A", "B", "C", "D", "E", "F"}
SimpleEscapes == {QUOTE, BS, "/", "b", "f", "n", "r", "t"}
ControlChars == {LF, CR, TAB}

RECURSIVE SkipWs(_, _)
SkipWs(s, i) == IF At(s, i) \in JsonWhitespace THEN SkipWs(s, i + 1) ELSE i

RECURSIVE DigitsEnd(_, _)
DigitsEnd(s, i) == IF At(s, i) \in Digits THEN DigitsEnd(s, i + 1) ELSE i

\* i is the position after the opening quote.
RECURSIVE ScanString(_, _)
ScanString(s, i) ==
    LET c == At(s, i) IN
    IF i > Len(s) THEN 0
    ELSE IF c = QUOTE THEN i + 1
    ELSE IF c \in ControlChars THEN 0
    ELSE IF c = BS
         THEN IF At(s, i + 1) \in SimpleEscapes THEN ScanString(s, i + 2)
              ELSE IF /\ At(s, i + 1) = "u"
                      /\ \A k \in 2..5 : At(s, i + k) \in HexDigits
                   THEN ScanString(s, i + 6)
              ELSE 0
    ELSE ScanString(s, i + 1)

\* NUMBER_RE = (-?(?:0|[1-9]\d*))(\.\d+)?([eE][-+]?\d+)?
ScanNumber(s, i) ==
    LET j0 == IF At(s, i) = "-" THEN i + 1 ELSE i
        j1 == IF At(s, j0) = "0" THEN j0 + 1
              ELSE IF At(s, j0) \in Digits THEN DigitsEnd(s, j0 + 1)
              ELSE 0
        j2 == IF At(s, j1) = "." /\ At(s, j1 + 1) \in Digits
              THEN DigitsEnd(s, j1 + 2) ELSE j1
        k  == IF At(s, j2 + 1) \in {"+", "-"} THEN j2 + 2 ELSE j2 + 1
        j3 == IF At(s, j2) \in {"e", "E"} /\ At(s, k) \in Digits
              THEN DigitsEnd(s, k + 1) ELSE j2
    IN  IF j1 = 0 THEN 0 ELSE j3

JsonLiterals ==
    { <<"n", "u", "l", "l">>, <<"t", "r", "u", "e">>, <<"f", "a", "l", "s", "e">>,
      <<"N", "a", "N">>, <<"I", "n", "f", "i", "n", "i", "t", "y">>,
      <<"-", "I", "n", "f", "i", "n", "i", "t", "y">> }

ScanLiteral(s, i) ==
    IF \E lit \in JsonLiterals : MatchAt(s, i, lit)
    THEN i + Len(CHOOSE lit \in JsonLiterals : MatchAt(s, i, lit))
    ELSE 0

RECURSIVE ScanValue(_, _)
RECURSIVE ScanMembers(_, _)
RECURSIVE ScanElements(_, _)

\* After "{" or ",": a key string, ":", a value, then "," or "}".
ScanMembers(s, i) ==
    IF At(s, i) # QUOTE THEN 0
    ELSE LET e == ScanString(s, i + 1) IN
         IF e = 0 THEN 0
         ELSE LET c == SkipWs(s, e) IN
              IF At(s, c) # ":" THEN 0
              ELSE LET v == ScanValue(s, SkipWs(s, c + 1)) IN
                   IF v = 0 THEN 0
                   ELSE LET d == SkipWs(s, v) IN
                        IF At(s, d) = "}" THEN d + 1
                        ELSE IF At(s, d) = "," THEN ScanMembers(s, SkipWs(s, d + 1))
                        ELSE 0

\* After "[" or ",": a value, then "," or "]".
ScanElements(s, i) ==
    LET v == ScanValue(s, i) IN
    IF v = 0 THEN 0
    ELSE LET d == SkipWs(s, v) IN
         IF At(s, d) = "]" THEN d + 1
         ELSE IF At(s, d) = "," THEN ScanElements(s, SkipWs(s, d + 1))
         ELSE 0

ScanValue(s, i) ==
    LET c == At(s, i) IN
    IF c = QUOTE THEN ScanString(s, i + 1)
    ELSE IF c = "{"
         THEN LET k == SkipWs(s, i + 1) IN
              IF At(s, k) = "}" THEN k + 1 ELSE ScanMembers(s, k)
    ELSE IF c = "["
         THEN LET k == SkipWs(s, i + 1) IN
              IF At(s, k) = "]" THEN k + 1 ELSE ScanElements(s, k)
    ELSE IF ScanNumber(s, i) # 0 THEN ScanNumber(s, i)
    ELSE ScanLiteral(s, i)

\* The Python type of the value that starts at position i of a valid text.
PyType(s, i) ==
    LET c == At(s, i) IN
    IF c = "{" THEN "dict"
    ELSE IF c = "[" THEN "list"
    ELSE IF c = QUOTE THEN "str"
    ELSE IF c = "n" THEN "NoneType"
    ELSE IF c \in {"t", "f"} THEN "bool"
    ELSE IF \E k \in i..(ScanValue(s, i) - 1) : At(s, k) \in {".", "e", "E", "N", "I"}
         THEN "float"
    ELSE "int"

\* The text of a valid document without the whitespace between its tokens.
RECURSIVE Tokens(_, _, _)
Tokens(s, i, inString) ==
    IF i > Len(s) THEN <<>>
    ELSE IF inString
         THEN IF s[i] = BS THEN <<s[i], At(s, i + 1)>> \o Tokens(s, i + 2, TRUE)
              ELSE <<s[i]>> \o Tokens(s, i + 1, s[i] # QUOTE)
    ELSE IF s[i] \in JsonWhitespace THEN Tokens(s, i + 1, FALSE)
    ELSE <<s[i]>> \o Tokens(s, i + 1, s[i] = QUOTE)

(***************************************************************************)
(* Python values held in the analysis fields.  A value parsed from JSON    *)
(* is its type and its tokens; the fallback record of agents.py:32-35 is   *)
(* the dict with the keys "error" and "raw_response".                      *)
(***************************************************************************)
ParseError == "Failed to parse response"

JsonValue(type, tokens) ==
    [type |-> type, json |-> tokens, error |-> "", raw_response |-> <<>>]

Fallback(response_text) ==
    [type |-> "dict", json |-> <<>>, error |-> ParseError, raw_response |-> response_text]

EmptyDict == JsonValue("dict", <<"{", "}">>)

\* json.loads(s): raised says JSONDecodeError, value is what is returned.
JsonLoads(s) ==
    LET i == SkipWs(s, 1)
        e == ScanValue(s, i)
    IN  IF e # 0 /\ SkipWs(s, e) = Len(s) + 1
        THEN [raised |-> FALSE, value |-> JsonValue(PyType(s, i), Tokens(s, 1, FALSE))]
        ELSE [raised |-> TRUE, value |-> EmptyDict]

(***************************************************************************)
(* re.search(r"```(?:json)?\n(.*?)\n```", response_text, re.DOTALL)        *)
(* (agents.py:21).                                                         *)
(***************************************************************************)
Fence == <<BACKTICK, BACKTICK, BACKTICK>>
JsonTag == <<"j", "s", "o", "n">>

\* ```(?:json)?\n at position i: the position where group 1 starts, or 0.
OpenerEnd(s, i) ==
    IF ~MatchAt(s, i, Fence) THEN 0
    ELSE IF MatchAt(s, i + 3, JsonTag \o <<LF>>) THEN i + 8
    ELSE IF At(s, i + 3) = LF THEN i + 4
    ELSE 0

\* \n``` at position k.
CloserAt(s, k) == MatchAt(s, k, <<LF>> \o Fence)

\* (.*?) is lazy and, under DOTALL, crosses lines: group 1 ends at the
\* first closer at or after its start; 0 when there is none.
LastCloser(s, from) ==
    IF \E k \in from..Len(s) : CloserAt(s, k)
    THEN CHOOSE k \in from..Len(s) :
            CloserAt(s, k) /\ \A m \in from..Len(s) : CloserAt(s, m) => m <= k
    ELSE 0

FirstCloser(s, from) ==
    IF \E k \in from..Len(s) : CloserAt(s, k)
    THEN CHOOSE k \in from..Len(s) :
            CloserAt(s, k) /\ \A m \in from..(k - 1) : ~CloserAt(s, m)
    ELSE 0

MatchesAt(s, i) == OpenerEnd(s, i) # 0 /\ FirstCloser(s, OpenerEnd(s, i)) # 0

\* The leftmost match: found, and group(1).
ReSearch(s) ==
    IF \E i \in 1..Len(s) : MatchesAt(s, i)
    THEN LET i == CHOOSE i \in 1..Len(s) :
                     MatchesAt(s, i) /\ \A m \in 1..(i - 1) : ~MatchesAt(s, m)
         IN  [found |-> TRUE,
              group1 |-> Slice(s, OpenerEnd(s, i), FirstCloser(s, OpenerEnd(s, i)))]
    ELSE [found |-> FALSE, group1 |-> <<>>]

(***************************************************************************)
(* extract_json_from_response (agents.py:18-35).  raised says an exception *)
(* leaves the function; both json.loads calls stand in a try whose bare    *)
(* except absorbs every exception.                                         *)
(***************************************************************************)
Returned(v) == [raised |-> FALSE, value |-> v]
Raised == [raised |-> TRUE, value |-> EmptyDict]

\* A slip: the two json.loads calls outside any try.
extract_json_unguarded(response_text) ==
    LET json_match == ReSearch(response_text)
        whole == JsonLoads(response_text)
    IN  IF json_match.found
        THEN LET inner == JsonLoads(json_match.group1) IN
             IF inner.raised THEN Raised ELSE Returned(inner.value)
        ELSE IF whole.raised THEN Raised ELSE Returned(whole.value)

extract_json_from_response(response_text) ==
    LET json_match == ReSearch(response_text)
        inner == JsonLoads(json_match.group1)
        whole == JsonLoads(response_text)
    IN  IF json_match.found /\ ~inner.raised THEN Returned(inner.value)
        ELSE IF ~whole.raised THEN Returned(whole.value)
        ELSE Returned(Fallback(response_text))

(***************************************************************************)
(* State.                                                                  *)
(*   runs           one record per invocation of analyze_article           *)
(*   heap           the AgentState objects, by reference                   *)
(*   parts          the pieces a reply text under test is made of          *)
(*   response_text  the reply text handed to extract_json_from_response    *)
(*   extracted      what that call gave                                    *)
(***************************************************************************)
VARIABLES runs, heap, parts, response_text, extracted

vars == <<runs, heap, parts, response_text, extracted>>

Runs == 1..NumRuns
Refs == 1..NumRuns

\* Python's None, kept apart from every text of single characters.
None == <<"None">>

(***************************************************************************)
(* Prompts.                                                                *)
(***************************************************************************)
TopicPlaceholder == <<"the main theme suggested by this content">>

\* create_analysis_prompt (agents.py:37-98): "topic if topic else ..." takes
\* the placeholder for None and for the empty string.
create_analysis_prompt(article, topic) ==
    LET topic_context == IF topic = None \/ topic = <<>> THEN TopicPlaceholder ELSE topic
    IN  <<"Analyze the following article ... Article:">> \o article
        \o <<"Target Topic/Search Term: ">> \o topic_context
        \o <<"Please provide a structured analysis ... Format your response as a JSON object ...">>

\* ChatPromptTemplate.from_template(text) followed by format_messages() with
\* no arguments (agents.py:102-103, 109-110): the text is an f-string
\* template.  from_template raises ValueError on a single brace; formatting
\* raises KeyError on a replacement field, which has no value; "{{" and "}}"
\* are the escapes of a brace.
RECURSIVE TemplateOutcome(_, _)
TemplateOutcome(s, i) ==
    IF i > Len(s) THEN "ok"
    ELSE IF s[i] = "{"
         THEN IF At(s, i + 1) = "{" THEN TemplateOutcome(s, i + 2)
              ELSE IF \E k \in (i + 1)..Len(s) : s[k] = "}"
                   THEN LET k == CHOOSE k \in (i + 1)..Len(s) :
                                    s[k] = "}" /\ \A m \in (i + 1)..(k - 1) : s[m] # "}"
                        IN  IF TemplateOutcome(s, k + 1) = "ValueError"
                            THEN "ValueError" ELSE "KeyError"
                   ELSE "ValueError"
    ELSE IF s[i] = "}"
         THEN IF At(s, i + 1) = "}" THEN TemplateOutcome(s, i + 2) ELSE "ValueError"
    ELSE TemplateOutcome(s, i + 1)

\* The text a template without fields formats to.
RECURSIVE FormatTemplate(_, _)
FormatTemplate(s, i) ==
    IF i > Len(s) THEN <<>>
    ELSE IF s[i] \in {"{", "}"} /\ At(s, i + 1) = s[i]
         THEN <<s[i]>> \o FormatTemplate(s, i + 2)
    ELSE <<s[i]>> \o FormatTemplate(s, i + 1)

\* json.dumps(value, indent=2) (agents.py:166-167), up to its line layout.
JsonDumps(v) ==
    IF v.error = ""
    THEN v.json
    ELSE <<"{", "\"error\": \"Failed to parse response\", \"raw_response\": ">>
         \o <<QUOTE>> \o v.raw_response \o <<QUOTE, "}">>

\* str(topic) as the comparison template's {topic} receives it:
\* state.get("topic", ...) finds the key, so None is formatted as "None".
TopicText(topic) == IF topic = None THEN <<"N", "o", "n", "e">> ELSE topic

\* The comparison prompt (agents.py:117-170): a fixed template whose three
\* fields all receive a value.
comparison_prompt(openai_analysis, anthropic_analysis, topic) ==
    <<"Compare the following two analyses ... OpenAI Analysis:">> \o JsonDumps(openai_analysis)
    \o <<"Anthropic Analysis:">> \o JsonDumps(anthropic_analysis)
    \o <<"Target Topic: ">> \o TopicText(topic)
    \o <<"Please provide: ... Format your response as a JSON object ...">>

(***************************************************************************)
(* The three nodes (agents.py:100-173).                                    *)
(***************************************************************************)
Nodes == {"openai_analysis", "anthropic_analysis", "compare"}
END == "__end__"
NoNode == "none"

\* The field a node assigns (agents.py:104, 111, 172).
WrongNodeField(node) ==
    IF node = "compare" THEN "final_comparison" ELSE "openai_analysis"

NodeField(node) ==
    CASE node = "openai_analysis" -> "openai_analysis"
      [] node = "anthropic_analysis" -> "anthropic_analysis"
      [] node = "compare" -> "final_comparison"

\* The fields a node reads (agents.py:102, 109, 166-168).
NodeReads(node) ==
    IF node = "compare"
    THEN {"openai_analysis", "anthropic_analysis", "topic"}
    ELSE {"article", "topic"}

\* What a node sees of the state: the fields it reads and no other.
View(state, node) == [f \in NodeReads(node) |-> state[f]]

\* The template a node hands to ChatPromptTemplate.from_template.
NodeTemplate(node, state) ==
    LET v == View(state, node) IN
    IF node = "compare"
    THEN comparison_prompt(v["openai_analysis"], v["anthropic_analysis"], v["topic"])
    ELSE create_analysis_prompt(v["article"], v["topic"])

\* "ok", or the exception the node raises before it calls its provider.
NodeFormatOutcome(node, state) ==
    IF node = "compare" THEN "ok" ELSE TemplateOutcome(NodeTemplate(node, state), 1)

\* The messages sent to the provider.
NodePrompt(node, state) ==
    IF node = "compare" THEN NodeTemplate(node, state)
    ELSE FormatTemplate(NodeTemplate(node, state), 1)

(***************************************************************************)
(* create_analysis_graph (agents.py:175-194).                              *)
(***************************************************************************)
WrongEntryPoint == "anthropic_analysis"

EntryPoint == "openai_analysis"

Edges == { <<"openai_analysis", "anthropic_analysis">>, <<"anthropic_analysis", "compare">> }

EarlyFinishPoint == "anthropic_analysis"

FinishPoint == "compare"

\* The node the compiled graph runs after node: END after the finish point,
\* else the node its edge leads to.
Successor(node) ==
    IF node = FinishPoint THEN END
    ELSE IF \E m \in Nodes : <<node, m>> \in Edges
         THEN CHOOSE m \in Nodes : <<node, m>> \in Edges
    ELSE END

(***************************************************************************)
(* Validation (main.py:33-34): len(text.strip()) < 50.                     *)
(***************************************************************************)
MinLength == 50

\* The characters str.strip() removes, among those of the model.
StripChars == {" ", TAB, LF, CR}

RECURSIVE LStrip(_)
LStrip(s) == IF s # <<>> /\ Head(s) \in StripChars THEN LStrip(Tail(s)) ELSE s

RECURSIVE RStrip(_)
RStrip(s) ==
    IF s # <<>> /\ s[Len(s)] \in StripChars THEN RStrip(SubSeq(s, 1, Len(s) - 1)) ELSE s

Strip(s) == RStrip(LStrip(s))

TextTooShortOffByOne(text) == Len(Strip(text)) <= MinLength

TextTooShort(text) == Len(Strip(text)) < MinLength

(***************************************************************************)
(* AgentState (agents.py:10-16) and the heap of such objects.              *)
(***************************************************************************)
FreeState ==
    [allocated |-> FALSE, messages |-> <<>>, article |-> <<>>, topic |-> None,
     openai_analysis |-> EmptyDict, anthropic_analysis |-> EmptyDict,
     final_comparison |-> EmptyDict]

\* initial_state of analyze_text (main.py:37-44).
initial_state(text, topic) ==
    [allocated |-> TRUE, messages |-> <<>>, article |-> text, topic |-> topic,
     openai_analysis |-> EmptyDict, anthropic_analysis |-> EmptyDict,
     final_comparison |-> EmptyDict]

\* A slip: one module-level state object that every invocation reuses.
SharedStateRef(h) == CHOOSE id \in Refs : \A other \in Refs : id <= other

\* AgentState(...) inside analyze_text builds a new object at every call
\* (main.py:37): a reference no invocation holds yet.
NewStateRef(h) ==
    CHOOSE id \in Refs :
        ~h[id].allocated /\ \A other \in Refs : ~h[other].allocated => id <= other

(***************************************************************************)
(* One invocation of analyze_article (main.py:53-60) around analyze_text   *)
(* (main.py:31-51).                                                        *)
(***************************************************************************)
OK == 200
BadRequest == 400
ServerError == 500

NoResult ==
    [returned |-> FALSE, openai_analysis |-> EmptyDict,
     anthropic_analysis |-> EmptyDict, final_comparison |-> EmptyDict]

NoResponse == [status_code |-> 0, body |-> NoResult]

IdleRun ==
    [status |-> "idle", text |-> <<>>, topic |-> None, state_ref |-> 0,
     node |-> NoNode, waiting |-> FALSE, prompt |-> <<>>, calls |-> 0,
     trace |-> <<>>, reads |-> {}, replies |-> <<>>, raised |-> "",
     result |-> NoResult, response |-> NoResponse]

\* The except clauses of analyze_article (main.py:57-60).
ErrorStatus(exc) == IF exc = "ValueError" THEN BadRequest ELSE ServerError

\* A slip: the failure of a step is swallowed and the state built so far
\* is returned.
FailKeepingState(run, exc) ==
    [run EXCEPT !.status = "done", !.waiting = FALSE,
                !.trace = Append(@, <<"raise", run.node, exc>>),
                !.result = [NoResult EXCEPT !.returned = TRUE],
                !.response = [status_code |-> OK,
                              body |-> [NoResult EXCEPT !.returned = TRUE]]]

\* An exception leaves chain.invoke and analyze_text (main.py:46, no
\* handler) and reaches analyze_article, which answers with an error.
Fail(run, exc) ==
    [run EXCEPT !.status = "done", !.waiting = FALSE, !.raised = exc,
                !.trace = Append(@, <<"raise", run.node, exc>>),
                !.response = [status_code |-> ErrorStatus(exc), body |-> NoResult]]

\* analyze_text returns the three fields of the final state (main.py:47-51)
\* and analyze_article returns them under response_model=AnalysisResponse
\* (main.py:26-29, 53): a field that is no dict fails the response's
\* validation, which the framework answers with a server error.
Finish(run, state) ==
    LET result == [returned |-> TRUE,
                   openai_analysis |-> state.openai_analysis,
                   anthropic_analysis |-> state.anthropic_analysis,
                   final_comparison |-> state.final_comparison]
        valid == /\ result.openai_analysis.type = "dict"
                 /\ result.anthropic_analysis.type = "dict"
                 /\ result.final_comparison.type = "dict"
    IN  [run EXCEPT !.status = "done", !.node = END, !.waiting = FALSE,
                    !.trace = Append(@, <<"return", END, "">>),
                    !.result = result,
                    !.response = IF valid THEN [status_code |-> OK, body |-> result]
                                 ELSE [status_code |-> ServerError, body |-> NoResult]]

\* The compiled graph moves to node: past the finish point chain.invoke
\* returns; else the node builds its prompt and calls its provider, or
\* raises while it builds the prompt.
EnterNode(run, state, node) ==
    IF node = END THEN Finish(run, state)
    ELSE LET started == [run EXCEPT !.node = node,
                                    !.reads = @ \cup {<<node, f>> : f \in NodeReads(node)},
                                    !.trace = Append(@, <<"start", node, "">>)]
             outcome == NodeFormatOutcome(node, state)
         IN  IF outcome # "ok" THEN Fail(started, outcome)
             ELSE [started EXCEPT !.waiting = TRUE,
                                  !.prompt = NodePrompt(node, state),
                                  !.calls = @ + 1,
                                  !.trace = Append(@, <<"call", node, "">>)]

\* POST /analyze with (text, topic): validation, then the graph is built,
\* the state created and chain.invoke entered, up to the first provider call.
AnalyzeArticle(r, text, topic) ==
    /\ runs[r].status = "idle"
    /\ LET run == [runs[r] EXCEPT !.status = "running", !.text = text, !.topic = topic]
           ref == NewStateRef(heap)
           state == initial_state(text, topic)
       IN  IF TextTooShort(text)
           THEN /\ runs' = [runs EXCEPT ![r] = Fail(run, "ValueError")]
                /\ UNCHANGED heap
           ELSE /\ heap' = [heap EXCEPT ![ref] = state]
                /\ runs' = [runs EXCEPT ![r] =
                               EnterNode([run EXCEPT !.state_ref = ref], state, EntryPoint)]
    /\ UNCHANGED <<parts, response_text, extracted>>

\* llm.invoke returns content: the node extracts the JSON, assigns its field
\* and returns the state; the graph moves on (agents.py:103-105, 110-112,
\* 164-173).
ProviderReturns(r, content) ==
    /\ runs[r].status = "running"
    /\ runs[r].waiting
    /\ LET run == runs[r]
           node == run.node
           got == extract_json_from_response(content)
           state == [heap[run.state_ref] EXCEPT ![NodeField(node)] = got.value]
           after == [run EXCEPT !.waiting = FALSE,
                                !.replies = Append(@, <<node, content>>),
                                !.trace = Append(@, <<"write", node, NodeField(node)>>)]
       IN  IF got.raised
           THEN /\ runs' = [runs EXCEPT ![r] =
                               Fail([run EXCEPT !.replies = Append(@, <<node, content>>)],
                                    "Exception")]
                /\ UNCHANGED heap
           ELSE /\ heap' = [heap EXCEPT ![run.state_ref] = state]
                /\ runs' = [runs EXCEPT ![r] = EnterNode(after, state, Successor(node))]
    /\ UNCHANGED <<parts, response_text, extracted>>

\* llm.invoke raises exc: no node catches it.
ProviderRaises(r, exc) ==
    /\ runs[r].status = "running"
    /\ runs[r].waiting
    /\ runs' = [runs EXCEPT ![r] = Fail(runs[r], exc)]
    /\ UNCHANGED <<heap, parts, response_text, extracted>>

(***************************************************************************)
(* Inputs of the pipeline.                                                 *)
(***************************************************************************)
\* A body of n characters (n = 0 or n >= 2) with a space inside it.
Body(n, c) == IF n = 0 THEN <<>> ELSE <<"T", " ">> \o Rep(c, n - 2)

\* Bodies of 0, 49 and 50 characters between up to MaxPad blanks and up to
\* MaxPad line feeds.
PlainArticles ==
    { Rep(" ", lead) \o Body(n, "a") \o Rep(LF, trail) :
        n \in {0, MinLength - 1, MinLength}, lead \in 0..MaxPad, trail \in 0..MaxPad }

\* Articles that hold braces: a replacement field, a single brace, an
\* escaped brace.
BraceArticles ==
    { <<"{", "x", "}">> \o Body(MinLength, "a"),
      <<"{">> \o Body(MinLength, "a"),
      <<"{", "{">> \o Body(MinLength, "a") }

Articles == PlainArticles \cup BraceArticles

Topics == {None, <<>>, <<"A", "I">>}

Refusal ==
    <<"I", " ", "c", "a", "n", "n", "o", "t", " ", "h", "e", "l", "p", " ",
      "w", "i", "t", "h", " ", "t", "h", "a", "t", ".">>

ObjectText == <<"{", QUOTE, "a", QUOTE, ":", " ", "1", "}">>

ArrayText == <<"[", "1", "]">>

FencedObjectText ==
    <<"S", "e", "e", ":", LF>> \o Fence \o JsonTag \o <<LF>> \o ObjectText \o <<LF>> \o Fence

Replies == {Refusal, ObjectText, FencedObjectText, ArrayText}

\* What a provider call can raise: a transport error, and an exception
\* that is a ValueError.
ExceptionTypes == {"ConnectionError", "ValueError"}

\* Inputs of the concurrent invocations: an article of its own for each.
RunLetters == <<"a", "b", "c", "d", "e", "f">>

ConcurrentArticle(r) == Body(MinLength, RunLetters[((r - 1) % Len(RunLetters)) + 1])

ConcurrentReplies == {Refusal, ObjectText}

(***************************************************************************)
(* Reply texts for extract_json_from_response, made of pieces:             *)
(* prefix, opening fence, tag, what follows the tag, interior, what        *)
(* precedes the closing fence, closing fence, suffix.                      *)
(***************************************************************************)
Prose == <<"S", "e", "e", ":", LF>>

Interiors ==
    { <<>>, ObjectText, ArrayText, <<"{", "}">>, <<"4", "2">>, <<"n", "u", "l", "l">>,
      <<"{", LF, " ", QUOTE, "a", QUOTE, ":", " ", "[", "1", ",", " ", "{", "}", "]", LF, "}">>,
      <<"{", QUOTE, "a", QUOTE, ":">>, Refusal }

Tags == { <<>>, JsonTag, <<"p", "y", "t", "h", "o", "n">>, <<"J", "S", "O", "N">> }

SecondBlock == <<LF>> \o Fence \o <<LF>> \o ArrayText \o <<LF>> \o Fence

FencedParts ==
    [ prefix : {<<>>, Prose},
      opener : {Fence, <<BACKTICK, BACKTICK>>},
      tag : Tags,
      after_tag : {<<LF>>, <<>>, <<CR, LF>>, <<" ", LF>>},
      interior : Interiors,
      before_closer : {<<LF>>, <<>>},
      closer : {Fence, <<>>},
      suffix : {<<>>, <<LF, "o", "k">>, SecondBlock} ]

PlainParts ==
    [ prefix : {<<>>, Prose, <<" ">>},
      opener : {<<>>}, tag : {<<>>}, after_tag : {<<>>},
      interior : Interiors,
      before_closer : {<<>>}, closer : {<<>>},
      suffix : {<<>>, <<LF>>, <<LF, "o", "k">>} ]

NoParts == CHOOSE p \in PlainParts : p.prefix = <<>> /\ p.interior = <<>> /\ p.suffix = <<>>

Render(p) ==
    p.prefix \o p.opener \o p.tag \o p.after_tag \o p.interior
    \o p.before_closer \o p.closer \o p.suffix

NotExtracted == [done |-> FALSE, raised |-> FALSE, value |-> EmptyDict]

\* One call of extract_json_from_response on response_text.
ExtractResponse ==
    /\ ~extracted.done
    /\ extracted' = [done |-> TRUE,
                     raised |-> extract_json_from_response(response_text).raised,
                     value |-> extract_json_from_response(response_text).value]
    /\ UNCHANGED <<runs, heap, parts, response_text>>

(***************************************************************************)
(* Specifications.                                                         *)
(***************************************************************************)
InitPipeline ==
    /\ runs = [r \in Runs |-> IdleRun]
    /\ heap = [id \in Refs |-> FreeState]

Init ==
    /\ InitPipeline
    /\ parts = NoParts
    /\ response_text = <<>>
    /\ extracted = NotExtracted

\* The invocation that Spec follows.
FirstRun == CHOOSE r \in Runs : \A q \in Runs : r <= q

\* One invocation, with every input of the pipeline.
Next ==
    \/ \E text \in Articles, topic \in Topics : AnalyzeArticle(FirstRun, text, topic)
    \/ \E exc \in ExceptionTypes : ProviderRaises(FirstRun, exc)
    \/ \E content \in Replies : ProviderReturns(FirstRun, content)

Spec == Init /\ [][Next]_vars

\* Every provider call ends, by a reply or by an exception, and chain.invoke
\* runs a node as soon as the one before it has returned.
LiveSpec == Spec /\ WF_vars(Next)

\* NumRuns invocations whose steps interleave at the provider calls.
NextConcurrent ==
    \E r \in Runs :
        \/ AnalyzeArticle(r, ConcurrentArticle(r), None)
        \/ ProviderRaises(r, "ConnectionError")
        \/ \E content \in ConcurrentReplies : ProviderReturns(r, content)

SpecConcurrent == Init /\ [][NextConcurrent]_vars

\* extract_json_from_response on every reply text of the universe.
InitExtract ==
    /\ InitPipeline
    /\ parts \in FencedParts \cup PlainParts
    /\ response_text = Render(parts)
    /\ extracted = NotExtracted

NextExtract == ExtractResponse

SpecExtract == InitExtract /\ [][NextExtract]_vars

(***************************************************************************)
(* Vocabulary of the properties.                                           *)
(***************************************************************************)
\* The length of s without its leading and trailing whitespace.
TrimmedLength(s) ==
    LET inked == {i \in 1..Len(s) : s[i] \notin {" ", TAB, LF, CR}} IN
    IF inked = {} THEN 0
    ELSE (CHOOSE i \in inked : \A j \in inked : j <= i)
         - (CHOOSE i \in inked : \A j \in inked : i <= j) + 1

AnalysisFields == {"openai_analysis", "anthropic_analysis", "final_comparison"}

\* The pipeline's steps in their order, and the field each one owns.
StepOrder == <<"openai_analysis", "anthropic_analysis", "compare">>
StepFields == <<"openai_analysis", "anthropic_analysis", "final_comparison">>
StepRank(node) == CHOOSE i \in 1..Len(StepOrder) : StepOrder[i] = node
StepField(node) == StepFields[StepRank(node)]
FieldRank(f) == CHOOSE i \in 1..Len(StepFields) : StepFields[i] = f

Events(run, kind) == {i \in 1..Len(run.trace) : run.trace[i][1] = kind}
WritesOf(run, f) == {i \in Events(run, "write") : run.trace[i][3] = f}
Written(run) == {f \in AnalysisFields : WritesOf(run, f) # {}}
Started(run) == run.state_ref # 0

\* A provider call of the run has raised: the raise follows the call.
ProviderFailed(run) ==
    \E i \in Events(run, "raise") :
        i > 1 /\ run.trace[i - 1] = <<"call", run.trace[i][2], "">>

\* The reply holds no JSON the extractor can take: neither the text nor a
\* fenced block of it parses.
Unparseable(content) ==
    /\ JsonLoads(content).raised
    /\ ReSearch(content).found => JsonLoads(ReSearch(content).group1).raised

\* The state of a run as the spec names it.
PipelineState(run) ==
    CASE Written(run) = {} -> "Created"
      [] Written(run) = {"openai_analysis"} -> "AAnalyzed"
      [] Written(run) = {"openai_analysis", "anthropic_analysis"} -> "BAnalyzed"
      [] Written(run) = AnalysisFields -> "Synthesized"
      [] OTHER -> "Invalid"

StateRank(run) == Cardinality(Written(run))

(***************************************************************************)
(* C1: in every run the provider-B step never starts before the            *)
(* provider-A step has written its field, and the synthesis step never     *)
(* starts before both analysis fields have been written.                   *)
(***************************************************************************)
C1_StepsStartInOrder ==
    \A r \in Runs :
        \A i \in Events(runs[r], "start") :
            LET node == runs[r].trace[i][2]
                before(f) == \E j \in WritesOf(runs[r], f) : j < i
            IN  /\ node = "anthropic_analysis" => before("openai_analysis")
                /\ node = "compare" => before("openai_analysis") /\ before("anthropic_analysis")

C1_Witness ==
    \E r \in Runs : \E i \in Events(runs[r], "start") : runs[r].trace[i][2] = "compare"

(***************************************************************************)
(* C2: when the provider call of a step raises, the run halts there: no    *)
(* later step starts, the call is not retried, and the caller receives no  *)
(* analysis mapping, neither complete nor partial.                         *)
(***************************************************************************)
C2_ProviderFailureHalts ==
    \A r \in Runs :
        LET run == runs[r] IN
        ProviderFailed(run) =>
            /\ run.status = "done" /\ ~run.waiting
            /\ run.trace[Len(run.trace)][1] = "raise"
            /\ Cardinality(Events(run, "raise")) = 1
            /\ \A i, j \in Events(run, "call") : run.trace[i][2] = run.trace[j][2] => i = j
            /\ ~run.result.returned
            /\ run.response.status_code # OK
            /\ run.response.body = NoResult

C2_Witness ==
    \E r \in Runs :
        /\ ProviderFailed(runs[r])
        /\ runs[r].node = "compare"
        /\ heap[runs[r].state_ref].openai_analysis # EmptyDict

(***************************************************************************)
(* C3: a client-error response is produced only when the input text fails  *)
(* validation, and every failure raised by a provider call is answered     *)
(* with a server-error response, whatever exception the call raises.       *)
(***************************************************************************)
C3_FailuresKeepTheirKind ==
    \A r \in Runs :
        LET run == runs[r] IN
        /\ run.response.status_code = BadRequest => TrimmedLength(run.text) < MinLength
        /\ ProviderFailed(run) => run.response.status_code = ServerError

(***************************************************************************)
(* C4: for every reply text extract_json_from_response raises nothing and  *)
(* returns a mapping: the parsed JSON object, or the fallback record that  *)
(* holds the text unchanged.                                               *)
(***************************************************************************)
C4_ExtractorReturnsMapping ==
    extracted.done =>
        /\ ~extracted.raised
        /\ extracted.value.type = "dict"
        /\ extracted.value.error # "" => extracted.value = Fallback(response_text)

(***************************************************************************)
(* C5: a reply that cannot be parsed as JSON raises no error at any step:  *)
(* the step's field becomes the fallback record with the reply verbatim,   *)
(* the remaining steps run, and the run returns its response.              *)
(***************************************************************************)
C5_ParseFailureAbsorbed ==
    \A r \in Runs :
        LET run == runs[r] IN
        /\ Cardinality(Events(run, "write")) = Len(run.replies)
        /\ \A i \in 1..Len(run.replies) :
              LET node == run.replies[i][1]
                  content == run.replies[i][2]
              IN  Unparseable(content) =>
                    /\ heap[run.state_ref][StepField(node)] = Fallback(content)
                    /\ i = Len(run.replies) /\ run.raised = "" =>
                          IF node = "compare"
                          THEN run.status = "done" /\ run.result.returned
                          ELSE run.waiting /\ StepRank(run.node) = StepRank(node) + 1
        /\ run.status = "done" /\ run.raised = "" =>
              /\ Len(run.replies) = Len(StepOrder)
              /\ run.result.returned
              /\ \A f \in AnalysisFields : run.result[f] = heap[run.state_ref][f]
              /\ (\A i \in 1..Len(run.replies) : Unparseable(run.replies[i][2])) =>
                    run.response = [status_code |-> OK, body |-> run.result]

C5_Witness ==
    \E r \in Runs :
        /\ runs[r].response.status_code = OK
        /\ runs[r].response.body.openai_analysis = Fallback(Refusal)
        /\ runs[r].response.body.anthropic_analysis.error = ""

(***************************************************************************)
(* C6: a text whose trimmed length is below 50 is rejected before any      *)
(* provider call and the pipeline never starts; a text whose trimmed       *)
(* length is 50 or more is accepted and the pipeline starts.               *)
(***************************************************************************)
C6_ValidationBoundary ==
    \A r \in Runs :
        LET run == runs[r] IN
        run.status # "idle" =>
            IF TrimmedLength(run.text) < MinLength
            THEN /\ run.status = "done" /\ run.raised = "ValueError"
                 /\ run.response.status_code = BadRequest
                 /\ run.calls = 0 /\ ~Started(run) /\ run.node = NoNode
                 /\ Events(run, "start") = {} /\ Events(run, "call") = {}
            ELSE /\ Started(run)
                 /\ run.trace[1] = <<"start", "openai_analysis", "">>
                 /\ heap[run.state_ref].article = run.text

C6_Witness ==
    \E r \in Runs :
        /\ runs[r].status = "done"
        /\ TrimmedLength(runs[r].text) = MinLength - 1
        /\ Len(runs[r].text) >= MinLength
        /\ runs[r].calls = 0

(***************************************************************************)
(* C7, as claimed: for every text that holds a fenced block, with any      *)
(* language tag or none, whose interior is valid JSON, beside prose        *)
(* outside the fence, the extractor returns the JSON of the first block.   *)
(***************************************************************************)
FencedJsonBesideProse(p) ==
    /\ p.opener = Fence /\ p.after_tag = <<LF>>
    /\ p.before_closer = <<LF>> /\ p.closer = Fence
    /\ ~JsonLoads(p.interior).raised
    /\ p.prefix # <<>> \/ p.suffix # <<>>

C7_AnyTagFence ==
    extracted.done /\ FencedJsonBesideProse(parts) =>
        /\ ~extracted.raised
        /\ extracted.value = JsonLoads(parts.interior).value

(***************************************************************************)
(* C7, amended: the same for a fenced block whose opening fence is         *)
(* followed at once by a line feed or by the tag json and a line feed.     *)
(***************************************************************************)
C7_JsonTagFence ==
    extracted.done /\ FencedJsonBesideProse(parts) /\ parts.tag \in {<<>>, JsonTag} =>
        /\ ~extracted.raised
        /\ extracted.value = JsonLoads(parts.interior).value

C7_Witness ==
    /\ extracted.done /\ FencedJsonBesideProse(parts)
    /\ parts.tag = JsonTag /\ parts.prefix = Prose /\ parts.suffix = SecondBlock
    /\ parts.interior = ObjectText
    /\ extracted.value.type = "dict" /\ extracted.value.error = ""

(***************************************************************************)
(* C8: concurrent invocations are independent: each has a state record of  *)
(* its own, and under every interleaving that record, the prompt in        *)
(* flight and the result are those of its own text, topic and replies.     *)
(***************************************************************************)
ReplyValue(run, node) ==
    IF \E i \in 1..Len(run.replies) : run.replies[i][1] = node
    THEN LET i == CHOOSE i \in 1..Len(run.replies) : run.replies[i][1] = node
         IN  extract_json_from_response(run.replies[i][2]).value
    ELSE EmptyDict

OwnState(run) ==
    [allocated |-> TRUE, messages |-> <<>>, article |-> run.text, topic |-> run.topic,
     openai_analysis |-> ReplyValue(run, "openai_analysis"),
     anthropic_analysis |-> ReplyValue(run, "anthropic_analysis"),
     final_comparison |-> ReplyValue(run, "compare")]

C8_RunsIndependent ==
    /\ \A r, q \in Runs : Started(runs[r]) /\ Started(runs[q]) /\ r # q =>
            runs[r].state_ref # runs[q].state_ref
    /\ \A r \in Runs :
        LET run == runs[r] IN
        Started(run) =>
            /\ heap[run.state_ref] = OwnState(run)
            /\ run.waiting => run.prompt = NodePrompt(run.node, OwnState(run))
            /\ run.result.returned =>
                  \A f \in AnalysisFields : run.result[f] = OwnState(run)[f]

C8_Witness ==
    \E r, q \in Runs :
        /\ r # q
        /\ runs[r].result.returned /\ runs[r].result.openai_analysis = Fallback(Refusal)
        /\ runs[q].waiting /\ runs[q].node = "compare"
        /\ heap[runs[q].state_ref].openai_analysis.error = ""

(***************************************************************************)
(* C9: each analysis field is written at most once, exactly once in a run  *)
(* that completes, and only by its own step; no step reads the field of    *)
(* its own or of a later step; article and topic never change.             *)
(***************************************************************************)
C9_FieldsWrittenOnce ==
    \A r \in Runs :
        LET run == runs[r] IN
        /\ \A f \in AnalysisFields : Cardinality(WritesOf(run, f)) <= 1
        /\ \A i \in Events(run, "write") : run.trace[i][3] = StepField(run.trace[i][2])
        /\ run.result.returned => \A f \in AnalysisFields : Cardinality(WritesOf(run, f)) = 1
        /\ \A p \in run.reads :
              p[2] \in AnalysisFields => FieldRank(p[2]) < StepRank(p[1])
        /\ Started(run) =>
              /\ heap[run.state_ref].article = run.text
              /\ heap[run.state_ref].topic = run.topic
              /\ \A f \in AnalysisFields \ Written(run) : heap[run.state_ref][f] = EmptyDict

C9_Witness ==
    \E r \in Runs :
        /\ runs[r].result.returned
        /\ Written(runs[r]) = AnalysisFields
        /\ <<"compare", "anthropic_analysis">> \in runs[r].reads

(***************************************************************************)
(* C10: a run moves through Created, AAnalyzed, BAnalyzed, Synthesized in  *)
(* that order, without branch, cycle or retry; each step makes exactly one *)
(* provider call; a run whose provider calls all return reaches            *)
(* Synthesized after exactly three calls; no step is taken from            *)
(* Synthesized.                                                            *)
(***************************************************************************)
C10_StateInv ==
    \A r \in Runs :
        LET run == runs[r] IN
        /\ PipelineState(run) # "Invalid"
        /\ Cardinality(Events(run, "call")) = run.calls
        /\ run.waiting => run.calls = StateRank(run) + 1 /\ run.node = StepOrder[run.calls]
        /\ run.status = "done" /\ run.raised = "" =>
              PipelineState(run) = "Synthesized" /\ run.calls = Len(StepOrder)
        /\ PipelineState(run) = "Synthesized" =>
              run.status = "done" /\ ~run.waiting /\ run.calls = Len(StepOrder)
        /\ ProviderFailed(run) => run.calls = StateRank(run) + 1
        /\ run.status = "done" /\ run.raised # "" /\ ~ProviderFailed(run) =>
              run.calls = StateRank(run)

C10_StateStep ==
    \A r \in Runs :
        /\ StateRank(runs'[r]) \in {StateRank(runs[r]), StateRank(runs[r]) + 1}
        /\ runs'[r].calls \in {runs[r].calls, runs[r].calls + 1}
        /\ PipelineState(runs[r]) = "Synthesized" => runs'[r] = runs[r]

C10_StateMachine ==
    /\ []C10_StateInv
    /\ [][C10_StateStep]_vars
    /\ \A r \in {FirstRun} :
          (runs[r].status = "running") ~>
              (PipelineState(runs[r]) = "Synthesized" \/ runs[r].raised # "")

C10_Witness ==
    \E r \in Runs :
        /\ PipelineState(runs[r]) = "Synthesized"
        /\ runs[r].calls = Len(StepOrder)
        /\ runs[r].response.status_code = OK

=============================================================================
